---- MODULE Spec2Model ----
(***************************************************************************)
(* ScheduleManager of Discord.RSS (src/src/web/services/subscriber.js,     *)
(* lines 71-264): the registry of schedule runs, the per-schedule side     *)
(* tables, the timers and the debug feed set, as a state machine.          *)
(***************************************************************************)
EXTENDS Integers, Sequences, FiniteSets, TLC

\* ------------------------------------------------------------------ bounds
MaxRuns == 3          \* ScheduleRun objects created in one behaviour
MaxAdds == 2          \* addSchedule calls in one behaviour
MaxParallel == 2      \* largest value of advanced.parallelRuns tried
MaxSignals == 2       \* 'pendingArticle' signals of registered runs

\* ------------------------------------------------------- values and domains
Schedules == {"s1", "s2"}
Feeds == {"f1", "f2"}

\* JavaScript's undefined (Map.get of a missing key, a missing config key), NaN
\* (undefined + 1) and the TypeError of reading a property of undefined
Undefined == -1
NaN == -2
TypeError == -3

VARIABLES
    timers,             \* this.timers: the interval handles, in push order
    intervals,          \* the handles armed in the runtime (setInterval)
    debugFeedIDs,       \* this.debugFeedIDs: the one Set instance
    schedules,          \* this.schedules
    scheduleRuns,       \* this.scheduleRuns: the registry, run ids in order
    scheduleRunCounts,  \* this.scheduleRunCounts
    memoryCollections,  \* this.memoryCollections: schedule -> object ref
    headers,            \* this.headers: schedule -> object ref
    heap,               \* the cache objects: ref -> set of feed keys written
    allRuns,            \* every ScheduleRun object created so far, by id
    parallelRuns,       \* getConfig().advanced.parallelRuns
    isMongoDatabase,    \* Base.isMongoDatabase
    emitted,            \* what the manager emitted on 'pendingArticle'
    signals,            \* what registered runs emitted on 'pendingArticle'
    last,               \* the operation that produced this state
    addedFeeds          \* the feed ids callers added and have not removed since

vars == <<timers, intervals, debugFeedIDs, schedules, scheduleRuns,
          scheduleRunCounts, memoryCollections, headers, heap, allRuns,
          parallelRuns, isMongoDatabase, emitted, signals, last,
          addedFeeds>>

\* ---------------------------------------------------------------- helpers
Range(seq) == {seq[i] : i \in 1..Len(seq)}

RunIds == 1..Len(allRuns)

\* Array.prototype.indexOf, 0-based, -1 when absent
IndexOf(seq, x) ==
    IF \E i \in 1..Len(seq) : seq[i] = x
    THEN (CHOOSE i \in 1..Len(seq) :
            seq[i] = x /\ \A j \in 1..(i - 1) : seq[j] # x) - 1
    ELSE -1

\* Array.prototype.splice(start, 1): a negative start counts from the end
SpliceOne(seq, start) ==
    LET n == Len(seq)
        from == IF start < 0
                THEN (IF n + start < 0 THEN 0 ELSE n + start)
                ELSE start
    IN IF from >= n THEN seq
       ELSE [i \in 1..(n - 1) |-> IF i <= from THEN seq[i] ELSE seq[i + 1]]

\* The registry part of the state, threaded through the synchronous calls
Reg(sr, ar) == [scheduleRuns |-> sr, allRuns |-> ar]

\* getRuns(schedule)
GetRuns(reg, schedule) ==
    SelectSeq(reg.scheduleRuns, LAMBDA r : reg.allRuns[r].schedule = schedule)

\* Variant: the run is stopped and spliced out, its listeners stay attached
TerminateRunKeepListeners(reg, run) ==
    Reg(SpliceOne(reg.scheduleRuns, IndexOf(reg.scheduleRuns, run)),
        [reg.allRuns EXCEPT ![run].terminated = TRUE])

\* terminateRun(run): run.terminate(), run.removeAllListeners(), splice
TerminateRun(reg, run) ==
    Reg(SpliceOne(reg.scheduleRuns, IndexOf(reg.scheduleRuns, run)),
        [reg.allRuns EXCEPT ![run].terminated = TRUE,
                            ![run].finishListener = FALSE,
                            ![run].pendingListener = FALSE])

RECURSIVE TerminateEach(_, _)
TerminateEach(reg, runs) ==
    IF runs = <<>> THEN reg
    ELSE TerminateEach(TerminateRun(reg, Head(runs)), Tail(runs))

\* Variant: only the oldest run of the schedule is terminated
TerminateOldestRun(reg, schedule) ==
    LET runs == GetRuns(reg, schedule)
    IN IF runs = <<>> THEN reg ELSE TerminateRun(reg, Head(runs))

\* terminateScheduleRuns(schedule)
TerminateScheduleRuns(reg, schedule) ==
    TerminateEach(reg, GetRuns(reg, schedule))

\* Variant: the comparison is off by one
AtMaxRunsOffByOne(reg, schedule) ==
    Len(GetRuns(reg, schedule)) = parallelRuns + 1

\* Variant: at or below the configured value
AtMaxRunsOrBelow(reg, schedule) ==
    Len(GetRuns(reg, schedule)) <= parallelRuns

\* Variant: at or above the configured value
AtMaxRunsOrAbove(reg, schedule) ==
    Len(GetRuns(reg, schedule)) >= parallelRuns

\* atMaxRuns(schedule): strict equality with the configured value
AtMaxRuns(reg, schedule) ==
    Len(GetRuns(reg, schedule)) = parallelRuns

\* getConfig().advanced.parallelRuns where advanced is absent: the read throws
ConfigThrows == parallelRuns = TypeError

\* incrementRunCount: counts.get(schedule) + 1
PlusOne(n) == IF n \in {Undefined, NaN} THEN NaN ELSE n + 1

\* Variant: the sum is computed but the old value is stored
IncrementRunCountLost(counts, schedule) ==
    [counts EXCEPT ![schedule] = counts[schedule]]

IncrementRunCount(counts, schedule) ==
    [counts EXCEPT ![schedule] = PlusOne(counts[schedule])]

\* The runs a dispatch of schedule force-terminates (ghost mark, lines 208-212)
MarkForced(reg, schedule) ==
    LET victims == Range(GetRuns(reg, schedule))
    IN Reg(reg.scheduleRuns,
           [r \in 1..Len(reg.allRuns) |->
               IF r \in victims
               THEN [reg.allRuns[r] EXCEPT !.forced = TRUE]
               ELSE reg.allRuns[r]])

\* this.debugFeedIDs is one Set, never reassigned: a reference to it, and what
\* a holder of the reference reads through it
DebugSetRef == "this.debugFeedIDs"

Deref(ref) == IF ref = DebugSetRef THEN debugFeedIDs ELSE {}

\* new ScheduleRun(schedule, runCount, memoryCollection, headers) with its
\* two listeners attached, started with a reference to this.debugFeedIDs
NewRun(schedule) ==
    [schedule |-> schedule,
     runCount |-> scheduleRunCounts[schedule],
     memoryCollection |-> memoryCollections[schedule],
     headers |-> headers[schedule],
     finishListener |-> TRUE,
     pendingListener |-> TRUE,
     terminated |-> FALSE,
     forced |-> FALSE,
     finished |-> FALSE,
     debugArg |-> DebugSetRef,
     debugAtStart |-> debugFeedIDs]

\* Variant: the push is left to a later turn of the event loop
RunScheduleDeferredPush(reg, schedule) ==
    LET cleared == IF AtMaxRuns(reg, schedule)
                   THEN TerminateScheduleRuns(MarkForced(reg, schedule), schedule)
                   ELSE reg
    IN Reg(cleared.scheduleRuns, Append(cleared.allRuns, NewRun(schedule)))

\* Variant: the new run is pushed into the registry twice
RunSchedulePushTwice(reg, schedule) ==
    LET cleared == IF AtMaxRuns(reg, schedule)
                   THEN TerminateScheduleRuns(MarkForced(reg, schedule), schedule)
                   ELSE reg
        id == Len(cleared.allRuns) + 1
    IN Reg(cleared.scheduleRuns \o <<id, id>>,
           Append(cleared.allRuns, NewRun(schedule)))

\* run(schedule) on the registry
RunSchedule(reg, schedule) ==
    LET cleared == IF AtMaxRuns(reg, schedule)
                   THEN TerminateScheduleRuns(MarkForced(reg, schedule), schedule)
                   ELSE reg
        id == Len(cleared.allRuns) + 1
    IN Reg(Append(cleared.scheduleRuns, id),
           Append(cleared.allRuns, NewRun(schedule)))

\* Variant: the array is emptied without clearInterval
ClearedIntervalsNone == intervals

\* this.timers.forEach(timer => clearInterval(timer)); this.timers.length = 0
ClearedIntervals == intervals \ Range(timers)

\* setInterval: a new handle, distinct from every handle still known
NewTimer(known, schedule) ==
    [id |-> (CHOOSE n \in 1..(Cardinality(known) + 1) :
                \A t \in known : t.id # n),
     schedule |-> schedule]

\* The forEach of beginTimers: run(schedule), then push a new interval; an
\* exception out of run(schedule) leaves the callback and the forEach
RECURSIVE BeginEach(_, _)
BeginEach(st, todo) ==
    IF todo = <<>> \/ ConfigThrows THEN st
    ELSE LET reg == RunSchedule(Reg(st.scheduleRuns, st.allRuns), Head(todo))
             timer == NewTimer(st.intervals \cup Range(st.timers), Head(todo))
         IN BeginEach([scheduleRuns |-> reg.scheduleRuns,
                       allRuns |-> reg.allRuns,
                       timers |-> Append(st.timers, timer),
                       intervals |-> st.intervals \cup {timer}],
                      Tail(todo))

\* The operation a step performed; arg is the emitting run for a signal and
\* the number of timers found in this.timers for clearTimers, else 0
Op(name, arg) == [op |-> name, arg |-> arg]

\* ------------------------------------------------------------------- Init
Init ==
    /\ timers = <<>>
    /\ intervals = {}
    /\ debugFeedIDs = {}
    /\ schedules = <<>>
    /\ scheduleRuns = <<>>
    /\ scheduleRunCounts = [s \in Schedules |-> Undefined]
    /\ memoryCollections = [s \in Schedules |-> Undefined]
    /\ headers = [s \in Schedules |-> Undefined]
    /\ heap = <<>>
    /\ allRuns = <<>>
    /\ parallelRuns \in 1..MaxParallel
    /\ isMongoDatabase \in BOOLEAN
    /\ emitted = <<>>
    /\ signals = <<>>
    /\ last = Op("init", 0)
    /\ addedFeeds = {}

\* The state after construction and addSchedules(<<"s1", "s2">>)
InitRegistered ==
    /\ timers = <<>>
    /\ intervals = {}
    /\ debugFeedIDs = {}
    /\ schedules = <<"s1", "s2">>
    /\ scheduleRuns = <<>>
    /\ scheduleRunCounts = [s \in Schedules |-> 0]
    /\ isMongoDatabase \in BOOLEAN
    /\ memoryCollections = IF isMongoDatabase
                           THEN [s \in Schedules |-> IF s = "s1" THEN 1 ELSE 3]
                           ELSE [s \in Schedules |-> Undefined]
    /\ headers = IF isMongoDatabase
                 THEN [s \in Schedules |-> IF s = "s1" THEN 2 ELSE 4]
                 ELSE [s \in Schedules |-> IF s = "s1" THEN 1 ELSE 2]
    /\ heap = IF isMongoDatabase THEN <<{}, {}, {}, {}>> ELSE <<{}, {}>>
    /\ allRuns = <<>>
    /\ parallelRuns \in 1..MaxParallel
    /\ emitted = <<>>
    /\ signals = <<>>
    /\ last = Op("init", 0)
    /\ addedFeeds = {}

\* ---------------------------------------------------------------- actions
\* addSchedule(schedule)
AddSchedule(schedule) ==
    /\ Len(schedules) < MaxAdds
    /\ schedules' = Append(schedules, schedule)
    /\ scheduleRunCounts' = [scheduleRunCounts EXCEPT ![schedule] = 0]
    /\ IF isMongoDatabase
       THEN /\ memoryCollections' =
                  [memoryCollections EXCEPT ![schedule] = Len(heap) + 1]
            /\ headers' = [headers EXCEPT ![schedule] = Len(heap) + 2]
            /\ heap' = heap \o <<{}, {}>>
       ELSE /\ memoryCollections' = memoryCollections
            /\ headers' = [headers EXCEPT ![schedule] = Len(heap) + 1]
            /\ heap' = Append(heap, {})
    /\ last' = Op("addSchedule", 0)
    /\ UNCHANGED <<timers, intervals, debugFeedIDs, scheduleRuns, allRuns,
                   parallelRuns, isMongoDatabase, emitted, signals,
                   addedFeeds>>

\* run(schedule), called directly
Run(schedule) ==
    /\ Len(allRuns) < MaxRuns
    /\ LET reg == IF ConfigThrows THEN Reg(scheduleRuns, allRuns)
                  ELSE RunSchedule(Reg(scheduleRuns, allRuns), schedule)
       IN /\ scheduleRuns' = reg.scheduleRuns
          /\ allRuns' = reg.allRuns
    /\ last' = IF ConfigThrows THEN Op("runThrew", 0) ELSE Op("run", 0)
    /\ UNCHANGED <<timers, intervals, debugFeedIDs, schedules,
                   scheduleRunCounts, memoryCollections, headers, heap,
                   parallelRuns, isMongoDatabase, emitted, signals,
                   addedFeeds>>

\* A run emits 'finish'; the once-listener of run(schedule), if still
\* attached, calls terminateRun(run) and incrementRunCount(schedule)
EmitFinish(run) ==
    /\ run \in RunIds
    /\ IF allRuns[run].finishListener
       THEN LET reg == TerminateRun(Reg(scheduleRuns, allRuns), run)
            IN /\ scheduleRuns' = reg.scheduleRuns
               /\ allRuns' = [reg.allRuns EXCEPT ![run].finished =
                                  (IndexOf(scheduleRuns, run) >= 0)]
               /\ scheduleRunCounts' =
                     IncrementRunCount(scheduleRunCounts, allRuns[run].schedule)
       ELSE UNCHANGED <<scheduleRuns, allRuns, scheduleRunCounts>>
    /\ last' = Op("finish", run)
    /\ UNCHANGED <<timers, intervals, debugFeedIDs, schedules,
                   memoryCollections, headers, heap, parallelRuns,
                   isMongoDatabase, emitted, signals,
                   addedFeeds>>

\* The payload object of a 'pendingArticle' signal, by its article._feed._id
PendingArticle(feed) == [article |-> [_feed |-> feed]]

\* Variant: the emit sits inside the debug branch
OnPendingArticleDebugOnly(out, pendingArticle) ==
    IF pendingArticle.article._feed \in debugFeedIDs
    THEN Append(out, pendingArticle)
    ELSE out

\* _onPendingArticle(pendingArticle): this.emit('pendingArticle', pendingArticle)
OnPendingArticle(out, pendingArticle) == Append(out, pendingArticle)

\* A run emits 'pendingArticle'; the listener of run(schedule), if still
\* attached, is _onPendingArticle
EmitPendingArticle(run, feed) ==
    /\ run \in RunIds
    /\ Len(signals) < MaxSignals
    /\ emitted' = IF allRuns[run].pendingListener
                  THEN OnPendingArticle(emitted, PendingArticle(feed))
                  ELSE emitted
    /\ signals' = IF IndexOf(scheduleRuns, run) >= 0
                  THEN Append(signals, PendingArticle(feed))
                  ELSE signals
    /\ last' = Op("pendingArticle", run)
    /\ UNCHANGED <<timers, intervals, debugFeedIDs, schedules, scheduleRuns,
                   scheduleRunCounts, memoryCollections, headers, heap,
                   allRuns, parallelRuns, isMongoDatabase,
                   addedFeeds>>

\* A running ScheduleRun mutates, in place, a cache it was constructed with
WriteCache(run, ref, feed) ==
    /\ run \in RunIds
    /\ ~allRuns[run].terminated
    /\ ref \in {allRuns[run].memoryCollection, allRuns[run].headers}
    /\ ref # Undefined
    /\ feed \notin heap[ref]
    /\ heap' = [heap EXCEPT ![ref] = @ \cup {feed}]
    /\ last' = Op("writeCache", run)
    /\ UNCHANGED <<timers, intervals, debugFeedIDs, schedules, scheduleRuns,
                   scheduleRunCounts, memoryCollections, headers, allRuns,
                   parallelRuns, isMongoDatabase, emitted, signals,
                   addedFeeds>>

\* clearTimers()
ClearTimers ==
    /\ IF Len(timers) = 0
       THEN UNCHANGED <<timers, intervals>>
       ELSE /\ intervals' = ClearedIntervals
            /\ timers' = <<>>
    /\ last' = Op("clearTimers", Len(timers))
    /\ UNCHANGED <<debugFeedIDs, schedules, scheduleRuns, scheduleRunCounts,
                   memoryCollections, headers, heap, allRuns, parallelRuns,
                   isMongoDatabase, emitted, signals,
                   addedFeeds>>

\* beginTimers()
BeginTimers ==
    /\ Len(allRuns) + Len(schedules) <= MaxRuns
    /\ LET st == BeginEach([scheduleRuns |-> scheduleRuns,
                            allRuns |-> allRuns,
                            timers |-> <<>>,
                            intervals |-> ClearedIntervals],
                           schedules)
       IN /\ scheduleRuns' = st.scheduleRuns
          /\ allRuns' = st.allRuns
          /\ timers' = st.timers
          /\ intervals' = st.intervals
    /\ last' = IF ConfigThrows /\ schedules # <<>>
                THEN Op("beginTimersThrew", 0)
                ELSE Op("beginTimers", 0)
    /\ UNCHANGED <<debugFeedIDs, schedules, scheduleRunCounts,
                   memoryCollections, headers, heap, parallelRuns,
                   isMongoDatabase, emitted, signals,
                   addedFeeds>>

\* An armed interval elapses: its callback calls run(schedule)
TimerFire(timer) ==
    /\ timer \in intervals
    /\ Len(allRuns) < MaxRuns
    /\ LET reg == IF ConfigThrows THEN Reg(scheduleRuns, allRuns)
                  ELSE RunSchedule(Reg(scheduleRuns, allRuns), timer.schedule)
       IN /\ scheduleRuns' = reg.scheduleRuns
          /\ allRuns' = reg.allRuns
    /\ last' = IF ConfigThrows THEN Op("timerFireThrew", 0)
                ELSE Op("timerFire", 0)
    /\ UNCHANGED <<timers, intervals, debugFeedIDs, schedules,
                   scheduleRunCounts, memoryCollections, headers, heap,
                   parallelRuns, isMongoDatabase, emitted, signals,
                   addedFeeds>>

\* Variant: Set.prototype.clear where delete was meant
DebugDeleteClears(set, feedID) == {}

\* this.debugFeedIDs.add(feedID) / this.debugFeedIDs.delete(feedID)
DebugAdd(set, feedID) == set \cup {feedID}

DebugDelete(set, feedID) == set \ {feedID}

\* addDebugFeedID(feedID)
AddDebugFeedID(feedID) ==
    /\ debugFeedIDs' = DebugAdd(debugFeedIDs, feedID)
    /\ addedFeeds' = addedFeeds \cup {feedID}
    /\ last' = Op("addDebugFeedID", 0)
    /\ UNCHANGED <<timers, intervals, schedules, scheduleRuns,
                   scheduleRunCounts, memoryCollections, headers, heap,
                   allRuns, parallelRuns, isMongoDatabase, emitted, signals>>

\* removeDebugFeedID(feedID)
RemoveDebugFeedID(feedID) ==
    /\ debugFeedIDs' = DebugDelete(debugFeedIDs, feedID)
    /\ addedFeeds' = addedFeeds \ {feedID}
    /\ last' = Op("removeDebugFeedID", 0)
    /\ UNCHANGED <<timers, intervals, schedules, scheduleRuns,
                   scheduleRunCounts, memoryCollections, headers, heap,
                   allRuns, parallelRuns, isMongoDatabase, emitted, signals>>

\* terminateRun(run), called from outside the manager on any run it ever made
TerminateRunCall(run) ==
    /\ run \in RunIds
    /\ LET reg == TerminateRun(Reg(scheduleRuns, allRuns), run)
       IN /\ scheduleRuns' = reg.scheduleRuns
          /\ allRuns' = reg.allRuns
    /\ last' = Op("terminateRun", run)
    /\ UNCHANGED <<timers, intervals, debugFeedIDs, schedules,
                   scheduleRunCounts, memoryCollections, headers, heap,
                   parallelRuns, isMongoDatabase, emitted, signals,
                   addedFeeds>>

\* What getConfig().advanced.parallelRuns can evaluate to: a positive number,
\* undefined when the key is absent, a TypeError when advanced is absent
ValidConfigs == 1..MaxParallel

ConfigValues == ValidConfigs \cup {Undefined, TypeError}

\* The configuration getConfig() returns changes between two operations
SetConfig(value) ==
    /\ value # parallelRuns
    /\ parallelRuns' = value
    /\ last' = Op("setConfig", 0)
    /\ UNCHANGED <<timers, intervals, debugFeedIDs, schedules, scheduleRuns,
                   scheduleRunCounts, memoryCollections, headers, heap,
                   allRuns, isMongoDatabase, emitted, signals, addedFeeds>>

\* The registry, the side tables and the timers
Next ==
    \/ \E s \in Schedules : AddSchedule(s)
    \/ \E s \in Schedules : Run(s)
    \/ \E r \in RunIds : EmitFinish(r)
    \/ ClearTimers
    \/ BeginTimers
    \/ \E t \in intervals : TimerFire(t)

Spec == Init /\ [][Next]_vars

\* The registry and the timers once both schedules are registered
NextRegistered ==
    \/ \E s \in Schedules : Run(s)
    \/ \E r \in RunIds : EmitFinish(r)
    \/ ClearTimers
    \/ BeginTimers
    \/ \E t \in intervals : TimerFire(t)

SpecRegistered == InitRegistered /\ [][NextRegistered]_vars

\* The registry and the caches the runs write
NextCaches ==
    \/ \E s \in Schedules : AddSchedule(s)
    \/ \E s \in Schedules : Run(s)
    \/ \E r \in RunIds, ref \in 1..Len(heap), f \in Feeds : WriteCache(r, ref, f)

SpecCaches == Init /\ [][NextCaches]_vars

\* The registry and the 'pendingArticle' stream, both schedules registered
NextSignals ==
    \/ \E s \in Schedules : Run(s)
    \/ \E r \in RunIds : EmitFinish(r)
    \/ \E r \in RunIds, f \in Feeds : EmitPendingArticle(r, f)

SpecSignals == InitRegistered /\ [][NextSignals]_vars

\* The registry and the debug feed set, both schedules registered
NextDebug ==
    \/ \E s \in Schedules : Run(s)
    \/ \E f \in Feeds : AddDebugFeedID(f)
    \/ \E f \in Feeds : RemoveDebugFeedID(f)

SpecDebug == InitRegistered /\ [][NextDebug]_vars

\* The registry with terminateRun as a public operation
NextTerminate ==
    \/ \E s \in Schedules : Run(s)
    \/ \E r \in RunIds : EmitFinish(r)
    \/ \E r \in RunIds : TerminateRunCall(r)

SpecTerminate == InitRegistered /\ [][NextTerminate]_vars


\* The registry and the timers under a configuration that may be unusable
NextFaultyConfig ==
    \/ \E v \in ConfigValues : SetConfig(v)
    \/ \E s \in Schedules : Run(s)
    \/ BeginTimers
    \/ \E t \in intervals : TimerFire(t)

SpecFaultyConfig == InitRegistered /\ [][NextFaultyConfig]_vars


\* The registry and the timers while the configured maximum changes
NextReconfig ==
    \/ \E v \in ValidConfigs : SetConfig(v)
    \/ \E s \in Schedules : Run(s)
    \/ \E r \in RunIds : EmitFinish(r)
    \/ BeginTimers
    \/ \E t \in intervals : TimerFire(t)

SpecReconfig == InitRegistered /\ [][NextReconfig]_vars

\* ------------------------------------------------------ claims: vocabulary
\* The runs of a schedule held in a registry, counted entry by entry
CountIn(sr, ar, s) == Cardinality({i \in 1..Len(sr) : ar[sr[i]].schedule = s})

Count(s) == CountIn(scheduleRuns, allRuns, s)

Registered(r) == \E i \in 1..Len(scheduleRuns) : scheduleRuns[i] = r

DispatchOps == {"run", "timerFire", "beginTimers"}

\* addSchedule(s) was called exactly once, and before any dispatch of s
RegisteredOnce(s) ==
    /\ Cardinality({i \in 1..Len(schedules) : schedules[i] = s}) = 1
    /\ \A r \in RunIds : allRuns[r].schedule = s => allRuns[r].runCount # Undefined

\* Runs of s that emitted 'finish' while registered / were force-terminated
Completions(s) ==
    Cardinality({r \in RunIds : allRuns[r].schedule = s /\ allRuns[r].finished})

ForcedTerminations(s) ==
    Cardinality({r \in RunIds : allRuns[r].schedule = s /\ allRuns[r].forced})

\* r2 is the run of its schedule created next after r1
Consecutive(r1, r2) ==
    /\ r1 < r2
    /\ allRuns[r1].schedule = allRuns[r2].schedule
    /\ \A r \in (r1 + 1)..(r2 - 1) : allRuns[r].schedule # allRuns[r1].schedule

\* ------------------------------------------------------------------ claims
\* C1: with a fixed maximum M >= 1 and an empty registry at the start, the
\* number of registered runs of any schedule right after a dispatch (a direct
\* run, a timer firing, or the dispatches of beginTimers) is at most M.
C1_ActiveRunsWithinMax ==
    (last.op \in DispatchOps /\ parallelRuns >= 1) =>
        \A s \in Schedules : Count(s) <= parallelRuns

\* A timer firing found its schedule at capacity and left exactly M = 1 run
C1_Witness ==
    /\ last.op = "timerFire"
    /\ \E r \in RunIds :
          /\ allRuns[r].forced
          /\ Count(allRuns[r].schedule) = parallelRuns

\* C2: for a schedule registered once, the run counter equals the number of
\* its runs that emitted 'finish' while registered; forced terminations and
\* repeated or late 'finish' signals add nothing.
C2_CounterEqualsCompletions ==
    \A s \in Schedules :
        RegisteredOnce(s) => scheduleRunCounts[s] = Completions(s)

\* One completion and one forced termination of s, and the force-terminated
\* run has just emitted a late 'finish'
C2_Witness ==
    \E s \in Schedules :
        /\ RegisteredOnce(s)
        /\ Completions(s) >= 1
        /\ ForcedTerminations(s) >= 1
        /\ last.op = "finish"
        /\ allRuns[last.arg].schedule = s
        /\ allRuns[last.arg].forced

\* The runs a step creates for schedule s
CreatedFor(s) ==
    {r \in (Len(allRuns) + 1)..Len(allRuns') : allRuns'[r].schedule = s}

\* C3: a single dispatch of s that finds s at capacity removes every run of s
\* from the registry, leaves exactly the new run registered for s, leaves no
\* terminated run in the registry and does not change the run counter; when
\* a registered run then emits 'finish', the counter of its schedule grows
\* by one.
C3_RestartAtCapacity ==
    [][/\ \A s \in Schedules :
            (/\ Cardinality(CreatedFor(s)) = 1
             /\ Count(s) = parallelRuns)
            => /\ \A r \in RunIds :
                    allRuns[r].schedule = s =>
                        \A i \in 1..Len(scheduleRuns') : scheduleRuns'[i] # r
               /\ CountIn(scheduleRuns', allRuns', s) = 1
               /\ \E i \in 1..Len(scheduleRuns') :
                    scheduleRuns'[i] \in CreatedFor(s)
               /\ \A i \in 1..Len(scheduleRuns') :
                    ~allRuns'[scheduleRuns'[i]].terminated
               /\ scheduleRunCounts' = scheduleRunCounts
       /\ (last'.op = "finish" /\ Registered(last'.arg)
            /\ scheduleRunCounts[allRuns[last'.arg].schedule] >= 0)
           => scheduleRunCounts'[allRuns[last'.arg].schedule] =
                 scheduleRunCounts[allRuns[last'.arg].schedule] + 1
      ]_vars

\* max = 1: run A was force-terminated by the timer firing that started run
\* B, the newest run; of their schedule only B is registered and the counter
\* is still 0
C3_Witness ==
    /\ parallelRuns = 1
    /\ last.op = "timerFire"
    /\ \E a \in RunIds :
          /\ Consecutive(a, Len(allRuns))
          /\ allRuns[a].forced
          /\ ~Registered(a)
          /\ Registered(Len(allRuns))
          /\ Count(allRuns[a].schedule) = 1
          /\ scheduleRunCounts[allRuns[a].schedule] = 0

\* C4: clearTimers empties this.timers; while it is empty no timer dispatches
\* a schedule, whatever else happens, until beginTimers arms timers again;
\* clearTimers leaves the registered runs as they are.
C4_NoDispatchAfterStop ==
    [][/\ last'.op = "clearTimers" =>
            (timers' = <<>> /\ scheduleRuns' = scheduleRuns /\ allRuns' = allRuns)
       /\ timers = <<>> => last'.op # "timerFire"
      ]_vars

\* clearTimers has just disarmed at least one timer while a run is in flight
C4_Witness ==
    /\ last.op = "clearTimers"
    /\ last.arg >= 1
    /\ scheduleRuns # <<>>
    /\ intervals = {}
\* C5: at most one armed repeating timer per schedule, after any sequence of
\* addSchedule, beginTimers and clearTimers.
C5_OneTimerPerSchedule ==
    \A s \in Schedules : Cardinality({t \in intervals : t.schedule = s}) <= 1

\* C6: addSchedule of a schedule that is already registered leaves its run
\* counter and its two caches as they were, and no step ever lowers a run
\* counter.
C6_AddScheduleIdempotent ==
    [][\A s \in Schedules :
          /\ (/\ last'.op = "addSchedule"
              /\ schedules' = Append(schedules, s)
              /\ \E i \in 1..Len(schedules) : schedules[i] = s)
             => /\ scheduleRunCounts'[s] = scheduleRunCounts[s]
                /\ memoryCollections'[s] = memoryCollections[s]
                /\ headers'[s] = headers[s]
          /\ scheduleRunCounts[s] >= 0 => scheduleRunCounts'[s] >= scheduleRunCounts[s]
      ]_vars

\* C7: two consecutive runs of a registered schedule are constructed with the
\* same memory cache object and the same header cache object.
C7_SameCachesAcrossRuns ==
    \A r1, r2 \in RunIds :
        (Consecutive(r1, r2) /\ allRuns[r1].runCount # Undefined) =>
            /\ allRuns[r1].memoryCollection = allRuns[r2].memoryCollection
            /\ allRuns[r1].headers = allRuns[r2].headers

\* C8: a signal emitted by a run after its forced termination changes
\* nothing: a late 'finish' leaves the registry and the run counters as they
\* were, and a late 'pendingArticle' is not re-emitted.
C8_LateSignalsIgnored ==
    [][(/\ last'.op \in {"finish", "pendingArticle"}
        /\ allRuns[last'.arg].forced)
       => /\ scheduleRuns' = scheduleRuns
          /\ scheduleRunCounts' = scheduleRunCounts
          /\ emitted' = emitted
      ]_vars

\* A force-terminated run has just emitted 'finish' while another run is
\* registered
C8_Witness ==
    /\ last.op = "finish"
    /\ allRuns[last.arg].forced
    /\ scheduleRuns # <<>>

\* C9: the manager's 'pendingArticle' stream is exactly the sequence of the
\* payloads that registered runs emitted: each once, unchanged, in order.
C9_PassThroughInOrder == emitted = signals

\* Two different payloads came through, the second one just now, while runs
\* of both schedules are registered
C9_Witness ==
    /\ Len(emitted) = 2
    /\ emitted[1].article # emitted[2].article
    /\ last.op = "pendingArticle"
    /\ \A s \in Schedules : Count(s) >= 1

\* C10: what a run in flight reads through the debug set it was started with
\* is the set as it was at its start.
C10_DebugSetFrozenAtStart ==
    \A r \in RunIds :
        ~allRuns[r].terminated =>
            Deref(allRuns[r].debugArg) = allRuns[r].debugAtStart
\* C11: right after a dispatch, the set handed to the new run's start holds
\* exactly the feed ids added and not removed before the dispatch.
C11_DebugArgIsCurrentSet ==
    last.op \in DispatchOps =>
        /\ Deref(allRuns[Len(allRuns)].debugArg) = addedFeeds
        /\ allRuns[Len(allRuns)].debugAtStart = addedFeeds

\* f1 was in the argument of an earlier dispatch, was removed, and is absent
\* from the argument of the dispatch just made, which still holds f2
C11_Witness ==
    /\ last.op = "run"
    /\ allRuns[Len(allRuns)].debugAtStart = {"f2"}
    /\ \E r \in RunIds : "f1" \in allRuns[r].debugAtStart

\* C12: terminateRun of a run that is not in the registry leaves the registry
\* unchanged; in particular it removes no other, still registered run.
C12_UnknownRunLeavesRegistry ==
    [][\A r \in RunIds :
          (last'.op = "terminateRun" /\ last'.arg = r /\ ~Registered(r))
              => scheduleRuns' = scheduleRuns]_vars

\* C13: when the dispatch of one schedule raises synchronously during
\* beginTimers, the error stays inside that schedule's handler: every
\* registered schedule still ends up with its timer.
C13_StartSurvivesDispatchError ==
    last.op = "beginTimersThrew" =>
        \A s \in Range(schedules) : \E t \in Range(timers) : t.schedule = s

\* C14: while no concurrency bound can be read from the configuration, no step
\* registers a new run.
C14_NoRunWithoutBound ==
    [][(parallelRuns \notin ValidConfigs /\ parallelRuns' = parallelRuns)
          => (allRuns' = allRuns /\ scheduleRuns' = scheduleRuns)]_vars

\* C15: the registry never holds the same run twice, and a run that enters
\* the registry is one created by that very step, never one that existed.
C15_NoDuplicateEntries ==
    [][/\ \A i, j \in 1..Len(scheduleRuns') :
              i # j => scheduleRuns'[i] # scheduleRuns'[j]
       /\ \A r \in Range(scheduleRuns') \ Range(scheduleRuns) : r \notin RunIds
      ]_vars

\* A dispatch added a second entry after an earlier run had been forced out
C15_Witness ==
    /\ last.op \in DispatchOps
    /\ Len(scheduleRuns) = 2
    /\ Registered(Len(allRuns))
    /\ \E r \in RunIds : allRuns[r].forced /\ ~Registered(r)

\* The registered runs of schedule s
RunsOf(s) == {r \in RunIds : Registered(r) /\ allRuns[r].schedule = s}

C17_WithinMaxUnderReconfig ==
    last.op \in DispatchOps =>
        Count(allRuns[Len(allRuns)].schedule) <= parallelRuns

\* C18: when a dispatch of s directly follows a dispatch of s, the second one
\* starts from a registry that holds the run the first one created, and its
\* capacity decision counts that run: at capacity the run is force-terminated,
\* otherwise it stays and the schedule has one run more.
C18_SecondDispatchSeesFirst ==
    [][(last.op \in DispatchOps /\ last'.op \in DispatchOps) =>
          LET first == Len(allRuns)
              s == allRuns[first].schedule
          IN CreatedFor(s) # {} =>
                 /\ Registered(first)
                 /\ IF Count(s) = parallelRuns
                    THEN /\ allRuns'[first].forced
                         /\ allRuns'[first].terminated
                         /\ CountIn(scheduleRuns', allRuns', s) = 1
                    ELSE /\ ~allRuns'[first].terminated
                         /\ \E i \in 1..Len(scheduleRuns') :
                                scheduleRuns'[i] = first
                         /\ CountIn(scheduleRuns', allRuns', s) = Count(s) + 1
      ]_vars

\* Two dispatches of one schedule and nothing else: the second found the
\* first's run, alone at the maximum, and forced it out
C18_Witness ==
    /\ last.op = "run"
    /\ Len(allRuns) = 2
    /\ allRuns[1].schedule = allRuns[2].schedule
    /\ allRuns[1].forced /\ ~allRuns[1].finished
    /\ scheduleRuns = <<2>>
    /\ timers = <<>> /\ intervals = {}

\* C19: a run that has not emitted 'finish' leaves the registry only in a
\* dispatch of its own schedule that finds exactly the maximum number of runs
\* registered for it; with a maximum of 1 every dispatch of the schedule
\* removes the runs it finds, so a silent run is gone at the next dispatch.
C19_SilentRunLeavesOnlyAtCapacity ==
    [][/\ \A r \in RunIds :
              (Registered(r) /\ ~allRuns'[r].finished
                  /\ \A i \in 1..Len(scheduleRuns') : scheduleRuns'[i] # r)
              => /\ last'.op \in DispatchOps
                 /\ CreatedFor(allRuns[r].schedule) # {}
                 /\ Cardinality(RunsOf(allRuns[r].schedule)) = parallelRuns
       /\ (parallelRuns = 1 /\ last'.op \in DispatchOps) =>
              \A s \in Schedules :
                  CreatedFor(s) # {} =>
                      \A r \in RunsOf(s), i \in 1..Len(scheduleRuns') :
                          scheduleRuns'[i] # r
      ]_vars

\* Maximum 2: the first run of a schedule is silent and still registered
\* after two later dispatches of the schedule, because the run in between
\* finished before the next dispatch
C19_Witness ==
    /\ parallelRuns = 2
    /\ last.op \in DispatchOps
    /\ Len(allRuns) = 3
    /\ \A r \in RunIds : allRuns[r].schedule = allRuns[1].schedule
    /\ Registered(1) /\ ~allRuns[1].finished /\ ~allRuns[1].terminated
    /\ allRuns[2].finished
    /\ Registered(3)

\* What the manager holds for schedule t: its registered runs in order, their
\* termination marks, its counter, its two caches and their contents
Holdings(sr, ar, counts, mem, hdr, hp, t) ==
    [runs |-> SelectSeq(sr, LAMBDA r : ar[r].schedule = t),
     terminated |-> {r \in 1..Len(ar) : ar[r].schedule = t /\ ar[r].terminated},
     count |-> counts[t],
     memoryCollection |-> mem[t],
     headers |-> hdr[t],
     contents |-> [ref \in {mem[t], hdr[t]} \cap (1..Len(hp)) |-> hp[ref]]]

\* C20: a dispatch of s (with or without the termination of all its runs),
\* the completion of a run of s and a terminateRun of a run of s leave every
\* other schedule t as it was: same registered runs, none of them terminated,
\* same counter, same caches.
C20_OtherSchedulesUntouched ==
    [][\A t \in Schedules :
          (\/ last'.op \in {"run", "timerFire"} /\ CreatedFor(t) = {}
           \/ last'.op \in {"finish", "terminateRun"}
                  /\ allRuns[last'.arg].schedule # t)
          => Holdings(scheduleRuns', allRuns', scheduleRunCounts',
                      memoryCollections', headers', heap', t)
               = Holdings(scheduleRuns, allRuns, scheduleRunCounts,
                          memoryCollections, headers, heap, t)
      ]_vars
====
